---- MODULE Spec2Model ----
(***************************************************************************)
(* The in-browser text-generation demo pages.  One behaviour follows one   *)
(* page component: its React state, its refs, the async functions it has   *)
(* started (each suspended at an await on a library promise) and the       *)
(* library pipelines it has been handed.  An action is one synchronous     *)
(* segment of page code: an event handler up to its first await, or the    *)
(* continuation that runs when a library promise settles.                  *)
(***************************************************************************)
EXTENDS Integers, Sequences, FiniteSets

VARIABLES page, ui, loads, runs, pipes, mounted, effectRuns

vars == <<page, ui, loads, runs, pipes, mounted, effectRuns>>

\* Bounds of the exploration.
MaxRuns == 2
MaxEffectRuns == 2

Pages == {"Disposable", "MinFootprint", "DistilGPT2", "Phi3", "Llama2"}
RefPages == {"DistilGPT2", "Phi3"}
EffectPages == Pages \ {"Disposable"}

\* The null handle (pipelineRef.current / generator / generatorRef.current).
Null == 0

(***************************************************************************)
(* JavaScript values of unknown shape: what a library promise resolves to  *)
(* or rejects with, and the strings the pages build from them.             *)
(***************************************************************************)
V(t, s, a) == [t |-> t, s |-> s, a |-> a]

Undefined == V("undefined", "", <<>>)
JsNull == V("null", "", <<>>)
Absent == V("absent", "", <<>>)
Num == V("number", "1", <<>>)
Str(s) == V("string", s, <<>>)
Arr(seq) == V("array", "", seq)
\* An object with the (optional) keys generated_text, role, content.
Obj(gt, role, content) == V("object", "", <<gt, role, content>>)
ErrorObj(m) == V("Error", m, <<>>)

\* The string JSON.stringify(v) / JSON.stringify(v, null, 2) / String(v).
Json(v) == V("json", "", <<v>>)
JsonPretty(v) == V("json2", "", <<v>>)
StringOf(v) == V("String", "", <<v>>)
\* A template literal `${prefix}${m}`.
Concat(prefix, m) == V("concat", prefix, <<m>>)

Empty == Str("")

IsString(v) == v.t \in {"string", "json", "json2", "String", "concat"}
IsArray(v) == v.t = "array"

\* JSON.stringify: undefined has no serialization.
JSONstringify(v) == IF v = Undefined THEN Undefined ELSE Json(v)
JSONstringify2(v) == IF v = Undefined THEN Undefined ELSE JsonPretty(v)
\* String(v), and interpolation of v into a template literal.
ToString(v) == IF IsString(v) THEN v ELSE StringOf(v)

\* obj.generated_text, obj.role, obj.content (undefined when missing).
Prop(v, i) == IF v.t = "object" /\ v.a[i] # Absent THEN v.a[i] ELSE Undefined
HasProp(v, i) == v.t = "object" /\ v.a[i] # Absent
\* v[0] and v[v.length - 1] of an array.
First(v) == IF IsArray(v) /\ Len(v.a) > 0 THEN v.a[1] ELSE Undefined
Last(v) == v.a[Len(v.a)]

UserMsg == Obj(Absent, Str("user"), Str("question"))
ReplyMsg == Obj(Absent, Str("assistant"), Str("reply"))
BadMsg == Obj(Absent, Num, Str("reply"))

\* Result shapes a generation call may resolve to.
Results ==
  { Arr(<<Obj(Str("text"), Absent, Absent)>>),
    Arr(<<Obj(Arr(<<UserMsg, ReplyMsg>>), Absent, Absent)>>),
    Arr(<<Obj(Arr(<<ReplyMsg, BadMsg>>), Absent, Absent)>>),
    Arr(<<Obj(Arr(<<>>), Absent, Absent)>>),
    Arr(<<Obj(Num, Absent, Absent)>>),
    Arr(<<Num>>),
    Arr(<<>>),
    Obj(Str("text"), Absent, Absent),
    Obj(Arr(<<UserMsg, ReplyMsg>>), Absent, Absent),
    Obj(Arr(<<Num>>), Absent, Absent),
    Obj(Num, Absent, Absent),
    Obj(Absent, Str("assistant"), Str("reply")),
    Str("plain"),
    JsNull,
    Undefined }

\* Values a library promise may reject with.
Errors == { ErrorObj("boom"), Str("oops"), Num }

(***************************************************************************)
(* Pure helpers of the pages.                                              *)
(***************************************************************************)
\* getErrorMessage of the SmolLM2 and llama2 pages.
getErrorMessage(err) == IF err.t = "Error" THEN Str(err.s) ELSE ToString(err)

\* Variant: the catch block shows a fixed text instead of the error's.
catchMessage_generic(e) == Str("Something went wrong")

\* The message conversion in the catch blocks of the DistilGPT-2 / Phi-3 pages.
catchMessage(e) ==
  IF e.t = "Error" THEN Str(e.s)
  ELSE IF IsString(e) THEN e
  ELSE JSONstringify(e)

\* extractText of the two SmolLM2 pages.
extractTextSmol(result) ==
  LET v == Prop(First(result), 1)
  IN IF IsString(v) THEN v ELSE JSONstringify2(result)

isChatMessage(x) ==
  /\ x.t = "object"
  /\ HasProp(x, 2)
  /\ HasProp(x, 3)
  /\ IsString(Prop(x, 2))
  /\ IsString(Prop(x, 3))

getGeneratedText(obj) == IF HasProp(obj, 1) THEN Prop(obj, 1) ELSE Undefined

\* The tail shared by both halves of extractText: the single-object case and
\* the fallback.
extractTextObject(result) ==
  LET gt == getGeneratedText(result)
  IN IF IsString(gt) THEN gt
     ELSE IF IsArray(gt) /\ Len(gt.a) > 0
          THEN IF isChatMessage(Last(gt)) THEN Prop(Last(gt), 3)
               ELSE JSONstringify(gt)
          ELSE IF IsString(result) THEN result ELSE JSONstringify(result)

\* Variant: the first chat message is taken instead of the last.
extractText_first(result) ==
  IF IsArray(result) /\ Len(result.a) > 0
  THEN LET gt == getGeneratedText(result.a[1])
       IN IF IsString(gt) THEN gt
          ELSE IF IsArray(gt) /\ Len(gt.a) > 0
               THEN IF isChatMessage(First(gt)) THEN Prop(First(gt), 3)
                    ELSE JSONstringify(gt)
               ELSE extractTextObject(result)
  ELSE extractTextObject(result)

\* extractText of the Phi-3 page.
extractText(result) ==
  IF IsArray(result) /\ Len(result.a) > 0
  THEN LET gt == getGeneratedText(result.a[1])
       IN IF IsString(gt) THEN gt
          ELSE IF IsArray(gt) /\ Len(gt.a) > 0
               THEN IF isChatMessage(Last(gt)) THEN Prop(Last(gt), 3)
                    ELSE JSONstringify(gt)
               ELSE extractTextObject(result)
  ELSE extractTextObject(result)

isTextGenItem(x) == HasProp(x, 1) /\ IsString(Prop(x, 1))

\* The result handling inside generatorRef.current of the DistilGPT-2 page.
distilText(result) ==
  IF IsArray(result) /\ Len(result.a) > 0 /\ isTextGenItem(result.a[1])
  THEN Prop(result.a[1], 1)
  ELSE IF isTextGenItem(result) THEN Prop(result, 1)
  ELSE IF IsString(result) THEN result ELSE JSONstringify(result)

\* result[0]?.generated_text ?? "" of the llama2 page; reading [0] of null or
\* undefined throws.
llamaThrows(result) == result \in {JsNull, Undefined}
llamaText(result) ==
  LET v == Prop(First(result), 1)
  IN IF v = Undefined \/ v = JsNull THEN Empty ELSE v


(***************************************************************************)
(* State.                                                                  *)
(*   ui     the page's useState / useRef values, by their source names     *)
(*   loads  the model loads started by a mount effect or by loadModel()    *)
(*   runs   the invocations of the Generate handler                        *)
(*   pipes  the pipelines the library has handed out (a handle is an       *)
(*          index into pipes)                                              *)
(***************************************************************************)
InitUI(pg) ==
  CASE pg = "Disposable" ->
         [status |-> "idle", output |-> Empty, pipelineRef |-> Null]
    [] pg = "MinFootprint" ->
         [ready |-> FALSE, loadingModel |-> FALSE, generating |-> FALSE,
          output |-> Empty, generator |-> Null]
    [] pg \in RefPages ->
         [generatorRef |-> Null, isLoadingModel |-> TRUE,
          status |-> Str("Loading model..."), output |-> Empty,
          isGenerating |-> FALSE]
    [] pg = "Llama2" ->
         [ready |-> FALSE, loading |-> FALSE, generating |-> FALSE,
          output |-> Empty, generator |-> Null]

Init ==
  /\ page \in Pages
  /\ ui = InitUI(page)
  /\ loads = <<>>
  /\ runs = <<>>
  /\ pipes = <<>>
  /\ mounted = FALSE
  /\ effectRuns = 0

NewLoad(caller) == [pc |-> "import", cancelled |-> FALSE, caller |-> caller]
NewRun(pc, g, load) ==
  [pc |-> pc, g |-> g, p |-> Null, load |-> load, outcome |-> "none",
   calledGen |-> (pc = "gen")]
NewPipe(hasDispose) ==
  [hasDispose |-> hasDispose, disposed |-> 0, pending |-> 0, started |-> 0]

\* The library starts / settles a generation call on pipeline g.
CallGen(ps, g) == [ps EXCEPT ![g].pending = @ + 1, ![g].started = @ + 1]
SettleGen(ps, g) == [ps EXCEPT ![g].pending = @ - 1]

(***************************************************************************)
(* SmolLM2 disposable page.                                                *)
(***************************************************************************)
\* Click on Generate: runOnceAndFree up to the first await inside
\* loadPipeline (or, with a pipeline already in the ref, up to the
\* generation call).
D_runOnceAndFree ==
  /\ page = "Disposable"
  /\ ui.status \notin {"loading", "running"}
  /\ Len(runs) < MaxRuns
  /\ IF ui.pipelineRef # Null
     THEN /\ ui' = [ui EXCEPT !.status = "running", !.output = Empty]
          /\ runs' = Append(runs, NewRun("gen", ui.pipelineRef, 0))
          /\ pipes' = CallGen(pipes, ui.pipelineRef)
     ELSE /\ ui' = [ui EXCEPT !.status = "loading", !.output = Empty]
          /\ runs' = Append(runs, NewRun("import", Null, 0))
          /\ UNCHANGED pipes
  /\ UNCHANGED <<page, loads, mounted, effectRuns>>

\* The import inside loadPipeline resolves: pipeline(...) is called.
D_importResolves(r) ==
  /\ page = "Disposable"
  /\ runs[r].pc = "import"
  /\ runs' = [runs EXCEPT ![r].pc = "pipeline"]
  /\ UNCHANGED <<page, ui, loads, pipes, mounted, effectRuns>>

\* pipeline(...) resolves: the ref is set, status becomes running and the
\* generation call is made.
D_pipelineResolves(r, hasDispose) ==
  /\ page = "Disposable"
  /\ runs[r].pc = "pipeline"
  /\ LET id == Len(pipes) + 1
     IN /\ ui' = [ui EXCEPT !.pipelineRef = id, !.status = "running"]
        /\ runs' = [runs EXCEPT ![r].pc = "gen", ![r].g = id,
                                ![r].calledGen = TRUE]
        /\ pipes' = CallGen(Append(pipes, NewPipe(hasDispose)), id)
  /\ UNCHANGED <<page, loads, mounted, effectRuns>>

\* Variant: disposePipeline disposes the pipeline but leaves it in the ref.
D_finally_keepRef(r, status, output, outcome) ==
  LET p == ui.pipelineRef
      disposing == p # Null /\ pipes[p].hasDispose
      g == runs[r].g
  IN /\ ui' = [status |-> status, output |-> output, pipelineRef |-> p]
     /\ runs' = [runs EXCEPT ![r].pc = IF disposing THEN "dispose" ELSE "done",
                             ![r].p = p,
                             ![r].outcome = outcome]
     /\ pipes' = [i \in DOMAIN pipes |->
                   [pipes[i] EXCEPT
                      !.pending = IF i = g /\ runs[r].pc = "gen"
                                  THEN @ - 1 ELSE @,
                      !.disposed = IF i = p /\ disposing THEN @ + 1 ELSE @]]

\* The end of a run: the try or catch block's state updates followed by the
\* finally block, i.e. disposePipeline up to its await.
D_finally(r, status, output, outcome) ==
  LET p == ui.pipelineRef
      disposing == p # Null /\ pipes[p].hasDispose
      g == runs[r].g
  IN /\ ui' = [status |-> status, output |-> output, pipelineRef |-> Null]
     /\ runs' = [runs EXCEPT ![r].pc = IF disposing THEN "dispose" ELSE "done",
                             ![r].p = p,
                             ![r].outcome = outcome]
     /\ pipes' = [i \in DOMAIN pipes |->
                   [pipes[i] EXCEPT
                      !.pending = IF i = g /\ runs[r].pc = "gen"
                                  THEN @ - 1 ELSE @,
                      !.disposed = IF i = p /\ disposing THEN @ + 1 ELSE @]]

\* The import or the pipeline construction rejects.
D_loadRejects(r, e) ==
  /\ page = "Disposable"
  /\ runs[r].pc \in {"import", "pipeline"}
  /\ D_finally(r, "error",
               Concat("Generation failed.\n\n", getErrorMessage(e)),
               "rejected")
  /\ UNCHANGED <<page, loads, mounted, effectRuns>>

D_genResolves(r, result) ==
  /\ page = "Disposable"
  /\ runs[r].pc = "gen"
  /\ D_finally(r, "idle", extractTextSmol(result), "resolved")
  /\ UNCHANGED <<page, loads, mounted, effectRuns>>

\* Variant: the catch block reports idle instead of error.
D_genRejects_idle(r, e) ==
  /\ page = "Disposable"
  /\ runs[r].pc = "gen"
  /\ D_finally(r, "idle",
               Concat("Generation failed.\n\n", getErrorMessage(e)),
               "rejected")
  /\ UNCHANGED <<page, loads, mounted, effectRuns>>

D_genRejects(r, e) ==
  /\ page = "Disposable"
  /\ runs[r].pc = "gen"
  /\ D_finally(r, "error",
               Concat("Generation failed.\n\n", getErrorMessage(e)),
               "rejected")
  /\ UNCHANGED <<page, loads, mounted, effectRuns>>

\* p.dispose() settles; a rejection is ignored.
D_disposeSettles(r) ==
  /\ page = "Disposable"
  /\ runs[r].pc = "dispose"
  /\ runs' = [runs EXCEPT ![r].pc = "done"]
  /\ UNCHANGED <<page, ui, loads, pipes, mounted, effectRuns>>

(***************************************************************************)
(* The mount effect of the four pages that have one.  The effect runs      *)
(* after mount; React may run its cleanup and run it again on the same     *)
(* component state (Strict Mode, Fast Refresh).                            *)
(***************************************************************************)
CanRunEffect ==
  /\ page \in EffectPages
  /\ ~mounted
  /\ effectRuns < MaxEffectRuns

EffectStarted ==
  /\ mounted' = TRUE
  /\ effectRuns' = effectRuns + 1

\* The cleanup returned by the effect sets the effect's own `cancelled`; the
\* min-footprint page's effect returns no cleanup.
EffectCleanup ==
  /\ page \in EffectPages
  /\ mounted
  /\ mounted' = FALSE
  /\ loads' = IF page = "MinFootprint"
              THEN loads
              ELSE [loads EXCEPT ![Len(loads)].cancelled = TRUE]
  /\ UNCHANGED <<page, ui, runs, pipes, effectRuns>>

(***************************************************************************)
(* SmolLM2 min-footprint page.                                             *)
(***************************************************************************)
\* loadModel up to its first await.
M_loadModel(u) == [u EXCEPT !.loadingModel = TRUE, !.output = Empty]

M_effect ==
  /\ page = "MinFootprint"
  /\ CanRunEffect
  /\ EffectStarted
  /\ ui' = M_loadModel(ui)
  /\ loads' = Append(loads, NewLoad(0))
  /\ UNCHANGED <<page, runs, pipes>>

\* Click on Generate.  `generator` is the value of the render the handler
\* was created in; the handler keeps it across its awaits.
M_runOnceAndFree ==
  /\ page = "MinFootprint"
  /\ mounted
  /\ ~(ui.generating \/ ui.loadingModel)
  /\ Len(runs) < MaxRuns
  /\ LET generator == ui.generator
     IN IF generator = Null
        THEN /\ ui' = M_loadModel(ui)
             /\ loads' = Append(loads, NewLoad(Len(runs) + 1))
             /\ runs' = Append(runs, NewRun("loadModel", generator,
                                            Len(loads) + 1))
             /\ UNCHANGED pipes
        ELSE /\ ui' = [ui EXCEPT !.generating = TRUE, !.output = Empty]
             /\ runs' = Append(runs, NewRun("gen", generator, 0))
             /\ pipes' = CallGen(pipes, generator)
             /\ UNCHANGED loads
  /\ UNCHANGED <<page, mounted, effectRuns>>

\* The rest of runOnceAndFree once `await loadModel()` returns, applied to
\* the state loadModel left behind.
M_afterLoadModel(l, u, ps) ==
  LET r == loads[l].caller
  IN IF r = 0
     THEN ui' = u /\ pipes' = ps /\ UNCHANGED runs
     ELSE IF runs[r].g = Null
          THEN /\ ui' = u
               /\ pipes' = ps
               /\ runs' = [runs EXCEPT ![r].pc = "done"]
          ELSE /\ ui' = [u EXCEPT !.generating = TRUE, !.output = Empty]
               /\ pipes' = CallGen(ps, runs[r].g)
               /\ runs' = [runs EXCEPT ![r].pc = "gen",
                                       ![r].calledGen = TRUE]

M_importResolves(l) ==
  /\ page = "MinFootprint"
  /\ loads[l].pc = "import"
  /\ loads' = [loads EXCEPT ![l].pc = "pipeline"]
  /\ UNCHANGED <<page, ui, runs, pipes, mounted, effectRuns>>

M_pipelineResolves(l) ==
  /\ page = "MinFootprint"
  /\ loads[l].pc = "pipeline"
  /\ loads' = [loads EXCEPT ![l].pc = "loaded"]
  /\ LET id == Len(pipes) + 1
     IN M_afterLoadModel(l,
          [ui EXCEPT !.generator = id, !.ready = TRUE,
                     !.loadingModel = FALSE],
          Append(pipes, NewPipe(TRUE)))
  /\ UNCHANGED <<page, mounted, effectRuns>>

\* Variant: the catch block of loadModel starts the load again (once).
M_loadRejects_retry(l, e) ==
  /\ page = "MinFootprint"
  /\ loads[l].pc \in {"import", "pipeline"}
  /\ loads' = IF Len(loads) < MaxRuns + MaxEffectRuns
              THEN Append([loads EXCEPT ![l].pc = "failed"],
                          NewLoad(loads[l].caller))
              ELSE [loads EXCEPT ![l].pc = "failed"]
  /\ ui' = [ui EXCEPT !.output = Concat("Failed to load model.\n\n",
                                        getErrorMessage(e)),
                      !.ready = FALSE, !.generator = Null]
  /\ UNCHANGED <<page, runs, pipes, mounted, effectRuns>>

M_loadRejects(l, e) ==
  /\ page = "MinFootprint"
  /\ loads[l].pc \in {"import", "pipeline"}
  /\ loads' = [loads EXCEPT ![l].pc = "failed"]
  /\ M_afterLoadModel(l,
       [ui EXCEPT !.output = Concat("Failed to load model.\n\n",
                                    getErrorMessage(e)),
                  !.ready = FALSE, !.generator = Null,
                  !.loadingModel = FALSE],
       pipes)
  /\ UNCHANGED <<page, mounted, effectRuns>>

\* Variant: the finally block does not drop the generator.
M_genSettles_keep(r, output, outcome) ==
  /\ page = "MinFootprint"
  /\ runs[r].pc = "gen"
  /\ ui' = [ui EXCEPT !.output = output, !.generating = FALSE]
  /\ runs' = [runs EXCEPT ![r].pc = "done", ![r].outcome = outcome]
  /\ pipes' = SettleGen(pipes, runs[r].g)
  /\ UNCHANGED <<page, loads, mounted, effectRuns>>

\* The try or catch block's output followed by the finally block.
M_genSettles(r, output, outcome) ==
  /\ page = "MinFootprint"
  /\ runs[r].pc = "gen"
  /\ ui' = [ui EXCEPT !.output = output, !.generating = FALSE,
                      !.generator = Null, !.ready = FALSE]
  /\ runs' = [runs EXCEPT ![r].pc = "done", ![r].outcome = outcome]
  /\ pipes' = SettleGen(pipes, runs[r].g)
  /\ UNCHANGED <<page, loads, mounted, effectRuns>>

M_genResolves(r, result) ==
  M_genSettles(r, extractTextSmol(result), "resolved")

M_genRejects(r, e) ==
  M_genSettles(r, Concat("Generation failed.\n\n", getErrorMessage(e)),
               "rejected")

\* The Clear button.
M_clear ==
  /\ page = "MinFootprint"
  /\ mounted
  /\ ui' = [ui EXCEPT !.generator = Null, !.ready = FALSE, !.output = Empty]
  /\ UNCHANGED <<page, loads, runs, pipes, mounted, effectRuns>>

(***************************************************************************)
(* DistilGPT-2 and Phi-3 pages.                                            *)
(***************************************************************************)
R_effect ==
  /\ page \in RefPages
  /\ CanRunEffect
  /\ EffectStarted
  /\ ui' = [ui EXCEPT !.isLoadingModel = TRUE,
                      !.status = Str("Importing Transformers.js...")]
  /\ loads' = Append(loads, NewLoad(0))
  /\ UNCHANGED <<page, runs, pipes>>

\* Variant: init has no finally block.
R_finally_missing(u) == u

\* The finally block of init.
R_finally(u) == [u EXCEPT !.isLoadingModel = FALSE]

R_importResolves(l) ==
  /\ page \in RefPages
  /\ loads[l].pc = "import"
  /\ IF loads[l].cancelled
     THEN /\ ui' = R_finally(ui)
          /\ loads' = [loads EXCEPT ![l].pc = "returned"]
     ELSE /\ ui' = [ui EXCEPT !.status = Str("Downloading/initializing...")]
          /\ loads' = [loads EXCEPT ![l].pc = "pipeline"]
  /\ UNCHANGED <<page, runs, pipes, mounted, effectRuns>>

R_pipelineResolves(l) ==
  /\ page \in RefPages
  /\ loads[l].pc = "pipeline"
  /\ pipes' = Append(pipes, NewPipe(TRUE))
  /\ IF loads[l].cancelled
     THEN /\ ui' = R_finally(ui)
          /\ loads' = [loads EXCEPT ![l].pc = "returned"]
     ELSE /\ ui' = R_finally([ui EXCEPT !.generatorRef = Len(pipes) + 1,
                                        !.status = Str("Model ready.")])
          /\ loads' = [loads EXCEPT ![l].pc = "loaded"]
  /\ UNCHANGED <<page, runs, mounted, effectRuns>>

R_loadRejects(l, e) ==
  /\ page \in RefPages
  /\ loads[l].pc \in {"import", "pipeline"}
  /\ ui' = R_finally([ui EXCEPT !.status =
                        Concat("Error loading model: ",
                               ToString(catchMessage(e)))])
  /\ loads' = [loads EXCEPT ![l].pc = "failed"]
  /\ UNCHANGED <<page, runs, pipes, mounted, effectRuns>>

onGenerate ==
  /\ page \in RefPages
  /\ mounted
  /\ ~(ui.isLoadingModel \/ ui.isGenerating)
  /\ Len(runs) < MaxRuns
  /\ LET gen == ui.generatorRef
     IN /\ gen # Null
        /\ ui' = [ui EXCEPT !.isGenerating = TRUE, !.output = Empty]
        /\ runs' = Append(runs, NewRun("gen", gen, 0))
        /\ pipes' = CallGen(pipes, gen)
  /\ UNCHANGED <<page, loads, mounted, effectRuns>>

R_genSettles(r, output, outcome) ==
  /\ page \in RefPages
  /\ runs[r].pc = "gen"
  /\ ui' = [ui EXCEPT !.output = output, !.isGenerating = FALSE]
  /\ runs' = [runs EXCEPT ![r].pc = "done", ![r].outcome = outcome]
  /\ pipes' = SettleGen(pipes, runs[r].g)
  /\ UNCHANGED <<page, loads, mounted, effectRuns>>

\* generatorRef.current resolves with the text it extracted.
R_genResolves(r, result) ==
  R_genSettles(r,
               IF page = "Phi3" THEN extractText(result)
               ELSE distilText(result),
               "resolved")

R_genRejects(r, e) ==
  R_genSettles(r, Concat("Error: ", ToString(catchMessage(e))), "rejected")

(***************************************************************************)
(* llama2 page.                                                            *)
(***************************************************************************)
L_effect ==
  /\ page = "Llama2"
  /\ CanRunEffect
  /\ EffectStarted
  /\ ui' = [ui EXCEPT !.loading = TRUE, !.output = Empty]
  /\ loads' = Append(loads, NewLoad(0))
  /\ UNCHANGED <<page, runs, pipes>>

L_importResolves(l) ==
  /\ page = "Llama2"
  /\ loads[l].pc = "import"
  /\ loads' = [loads EXCEPT ![l].pc = "pipeline"]
  /\ UNCHANGED <<page, ui, runs, pipes, mounted, effectRuns>>

\* Variant: the generator is installed without looking at cancelled.
L_pipelineResolves_unchecked(l) ==
  /\ page = "Llama2"
  /\ loads[l].pc = "pipeline"
  /\ pipes' = Append(pipes, NewPipe(TRUE))
  /\ loads' = [loads EXCEPT ![l].pc = "loaded"]
  /\ ui' = [ui EXCEPT !.generator = Len(pipes) + 1, !.ready = TRUE,
                      !.loading = FALSE]
  /\ UNCHANGED <<page, runs, mounted, effectRuns>>

L_pipelineResolves(l) ==
  /\ page = "Llama2"
  /\ loads[l].pc = "pipeline"
  /\ pipes' = Append(pipes, NewPipe(TRUE))
  /\ loads' = [loads EXCEPT ![l].pc = "loaded"]
  /\ ui' = IF ~loads[l].cancelled
           THEN [ui EXCEPT !.generator = Len(pipes) + 1, !.ready = TRUE,
                           !.loading = FALSE]
           ELSE ui
  /\ UNCHANGED <<page, runs, mounted, effectRuns>>

L_loadRejects(l, e) ==
  /\ page = "Llama2"
  /\ loads[l].pc \in {"import", "pipeline"}
  /\ loads' = [loads EXCEPT ![l].pc = "failed"]
  /\ ui' = IF ~loads[l].cancelled
           THEN [ui EXCEPT !.output = Concat("Failed to load model.\n\n",
                                             getErrorMessage(e)),
                           !.loading = FALSE]
           ELSE ui
  /\ UNCHANGED <<page, runs, pipes, mounted, effectRuns>>

generate ==
  /\ page = "Llama2"
  /\ mounted
  /\ ~(~ui.ready \/ ui.generating)
  /\ Len(runs) < MaxRuns
  /\ ui.generator # Null
  /\ ui' = [ui EXCEPT !.generating = TRUE, !.output = Empty]
  /\ runs' = Append(runs, NewRun("gen", ui.generator, 0))
  /\ pipes' = CallGen(pipes, ui.generator)
  /\ UNCHANGED <<page, loads, mounted, effectRuns>>

L_genSettles(r, output, outcome) ==
  /\ page = "Llama2"
  /\ runs[r].pc = "gen"
  /\ ui' = [ui EXCEPT !.output = output, !.generating = FALSE]
  /\ runs' = [runs EXCEPT ![r].pc = "done", ![r].outcome = outcome]
  /\ pipes' = SettleGen(pipes, runs[r].g)
  /\ UNCHANGED <<page, loads, mounted, effectRuns>>

\* The TypeError thrown by result[0] when result is null or undefined.
TypeErr == ErrorObj("Cannot read properties")

L_genResolves(r, result) ==
  IF llamaThrows(result)
  THEN L_genSettles(r, Concat("Generation failed.\n\n",
                              getErrorMessage(TypeErr)), "threw")
  ELSE L_genSettles(r, llamaText(result), "resolved")

L_genRejects(r, e) ==
  L_genSettles(r, Concat("Generation failed.\n\n", getErrorMessage(e)),
               "rejected")

(***************************************************************************)
(* The specification.                                                      *)
(***************************************************************************)
Run == DOMAIN runs
Load == DOMAIN loads

Next ==
  \/ D_runOnceAndFree
  \/ \E r \in Run : D_importResolves(r)
  \/ \E r \in Run, hd \in BOOLEAN : D_pipelineResolves(r, hd)
  \/ \E r \in Run, e \in Errors : D_loadRejects(r, e)
  \/ \E r \in Run, res \in Results : D_genResolves(r, res)
  \/ \E r \in Run, e \in Errors : D_genRejects(r, e)
  \/ \E r \in Run : D_disposeSettles(r)
  \/ EffectCleanup
  \/ M_effect
  \/ M_runOnceAndFree
  \/ \E l \in Load : M_importResolves(l)
  \/ \E l \in Load : M_pipelineResolves(l)
  \/ \E l \in Load, e \in Errors : M_loadRejects(l, e)
  \/ \E r \in Run, res \in Results : M_genResolves(r, res)
  \/ \E r \in Run, e \in Errors : M_genRejects(r, e)
  \/ M_clear
  \/ R_effect
  \/ \E l \in Load : R_importResolves(l)
  \/ \E l \in Load : R_pipelineResolves(l)
  \/ \E l \in Load, e \in Errors : R_loadRejects(l, e)
  \/ onGenerate
  \/ \E r \in Run, res \in Results : R_genResolves(r, res)
  \/ \E r \in Run, e \in Errors : R_genRejects(r, e)
  \/ L_effect
  \/ \E l \in Load : L_importResolves(l)
  \/ \E l \in Load : L_pipelineResolves(l)
  \/ \E l \in Load, e \in Errors : L_loadRejects(l, e)
  \/ generate
  \/ \E r \in Run, res \in Results : L_genResolves(r, res)
  \/ \E r \in Run, e \in Errors : L_genRejects(r, e)

Spec == Init /\ [][Next]_vars

(***************************************************************************)
(* Derived notions used by the properties.                                 *)
(***************************************************************************)
\* Model loads whose import or pipeline construction is still pending.
PendingLoads == {l \in Load : loads[l].pc \in {"import", "pipeline"}}
\* Runs of the disposable page that are awaiting loadPipeline.
LoadingRuns == {r \in Run : runs[r].pc \in {"import", "pipeline"}}
\* Runs whose generation call is pending.
GeneratingRuns == {r \in Run : runs[r].pc = "gen"}

\* Number of model-load or generation calls in flight.
InFlight ==
  Cardinality(PendingLoads) + Cardinality(LoadingRuns)
    + Cardinality(GeneratingRuns)

\* The disabled attribute of the Generate button.
Disabled ==
  CASE page = "Disposable" -> ui.status = "loading" \/ ui.status = "running"
    [] page = "MinFootprint" -> ui.generating \/ ui.loadingModel
    [] page \in RefPages -> ui.isLoadingModel \/ ui.isGenerating
    [] page = "Llama2" -> ~ui.ready \/ ui.generating

\* C1: on every page at most one model-load or generation call is in flight
\* at any time.
C1_OneCallInFlight == InFlight <= 1

\* C2: whenever a model load that has not been cancelled is pending, the
\* Generate button is disabled.
C2_DisabledWhileLoading ==
  /\ (\E l \in PendingLoads : ~loads[l].cancelled) => Disabled
  /\ LoadingRuns # {} => Disabled

\* The texts an error value may be shown as: an Error's message, a thrown
\* string itself, any other value's string conversion.
ErrorTexts(e) ==
  IF e.t = "Error" THEN {Str(e.s)}
  ELSE IF e.t = "string" THEN {e}
  ELSE {StringOf(e), Json(e)}

\* The displayed text v is a message that contains the text of error e.
Shows(v, e) == v.t = "concat" /\ v.a[1] \in ErrorTexts(e)

\* C3: when the import, the pipeline construction or the generation call of a
\* load that has not been cancelled rejects, the step that handles the
\* rejection sets the output (the status text for a load on the DistilGPT-2
\* and Phi-3 pages) to a message containing the error's text.
C3_Step ==
  \A e \in Errors :
       /\ (\E r \in Run : D_loadRejects(r, e) \/ D_genRejects(r, e))
            => Shows(ui'.output, e)
       /\ (\E l \in Load : M_loadRejects(l, e)) => Shows(ui'.output, e)
       /\ (\E r \in Run : M_genRejects(r, e)) => Shows(ui'.output, e)
       /\ (\E l \in Load : ~loads[l].cancelled /\ R_loadRejects(l, e))
            => Shows(ui'.status, e)
       /\ (\E r \in Run : R_genRejects(r, e)) => Shows(ui'.output, e)
       /\ (\E l \in Load : ~loads[l].cancelled /\ L_loadRejects(l, e))
            => Shows(ui'.output, e)
       /\ (\E r \in Run : L_genRejects(r, e)) => Shows(ui'.output, e)

Handle == IF page = "Disposable" THEN ui.pipelineRef ELSE ui.generator

\* Some load's pipeline construction resolves in this step.
LoadResolvesInStep ==
  \/ \E l \in Load : loads[l].pc = "pipeline" /\ loads'[l].pc = "loaded"
  \/ \E r \in Run : runs[r].pc = "pipeline" /\ runs'[r].pc = "gen"

\* C4: on the two cleanup pages the step in which a generation call settles
\* leaves no model handle (and ready false on the min-footprint page), and
\* the handle becomes non-null again only in a step in which a load resolves.
C4_Step ==
  page \in {"Disposable", "MinFootprint"} =>
       /\ \A r \in Run :
            (runs[r].pc = "gen" /\ runs'[r].pc # "gen")
              => (/\ Handle' = Null
                  /\ (page = "MinFootprint" => ~ui'.ready))
       /\ (Handle = Null /\ Handle' # Null) => LoadResolvesInStep
       /\ (page = "MinFootprint" /\ ~ui.ready /\ ui'.ready)
            => LoadResolvesInStep

C4_HandleReleased == [][C4_Step]_vars

\* A run of the min-footprint page has generated and finished, and the page
\* holds no generator.
C4_Witness ==
  /\ page = "MinFootprint"
  /\ \E r \in Run : runs[r].pc = "done" /\ runs[r].calledGen
  /\ ui.generator = Null
  /\ ~ui.ready

\* The generator handle of the pages that carry a cancelled flag.
Generator == IF page = "Llama2" THEN ui.generator ELSE ui.generatorRef

\* C5: on the llama2, DistilGPT-2 and Phi-3 pages a step taken by a load
\* that is pending and already cancelled leaves the generator (and, on the
\* llama2 page, ready) as it was.
C5_Step ==
  page \in {"Llama2", "DistilGPT2", "Phi3"} =>
       \A l \in Load :
         (loads[l].cancelled /\ l \in PendingLoads
            /\ loads'[l].pc # loads[l].pc)
           => (/\ Generator' = Generator
               /\ (page = "Llama2" => ui'.ready = ui.ready))

C5_CancelledLoadInstallsNothing == [][C5_Step]_vars

\* A load cancelled before it finished has had its pipeline resolved, and no
\* generator is installed.
C5_Witness ==
  /\ page = "Llama2"
  /\ \E l \in Load : loads[l].cancelled /\ loads[l].pc = "loaded"
  /\ ui.generator = Null
  /\ ~ui.ready

\* No run of the disposable page is loading or generating.
NoActiveRun == LoadingRuns = {} /\ GeneratingRuns = {}

LastRun == runs[Len(runs)]

C6_State ==
  page = "Disposable" =>
    /\ (ui.status = "loading") <=> (LoadingRuns # {})
    /\ (ui.status = "running") <=> (GeneratingRuns # {})
    /\ (ui.status = "idle") <=>
         (NoActiveRun /\ (runs = <<>> \/ LastRun.outcome = "resolved"))
    /\ (ui.status = "error") <=>
         (NoActiveRun /\ runs # <<>> /\ LastRun.outcome = "rejected")

StatusTransitions ==
  { <<"idle", "loading">>, <<"error", "loading">>, <<"loading", "running">>,
    <<"running", "idle">>, <<"running", "error">>, <<"loading", "error">> }

C6_Step ==
  page = "Disposable" =>
    (ui'.status = ui.status \/ <<ui.status, ui'.status>> \in StatusTransitions)

\* C6: on the disposable page status is 'loading' exactly while a run awaits
\* loadPipeline, 'running' exactly while a generation call is pending, 'idle'
\* initially and after a run whose generation resolved, 'error' after a run
\* whose load or generation rejected; status changes only along idle/error ->
\* loading -> running -> idle/error and loading -> error.
C6_StatusReflectsLastOperation == [](C6_State) /\ [][C6_Step]_vars

\* A second run has failed after a first one succeeded.
C6_Witness ==
  /\ page = "Disposable"
  /\ Len(runs) = 2
  /\ runs[1].outcome = "resolved"
  /\ runs[2].outcome = "rejected"
  /\ ui.status = "error"

\* A load or a generation is rejected in this step.
RejectionInStep ==
  \/ \E l \in Load : l \in PendingLoads /\ loads'[l].pc = "failed"
  \/ \E r \in Run : runs[r].outcome = "none" /\ runs'[r].outcome = "rejected"

\* No load, run or generation call is started in this step.
NoCallStarted ==
  /\ Len(loads') = Len(loads)
  /\ Len(runs') = Len(runs)
  /\ Len(pipes') = Len(pipes)
  /\ \A l \in Load : l \in PendingLoads \/ loads'[l].pc \notin {"import", "pipeline"}
  /\ \A r \in Run : runs'[r].pc \in {"import", "pipeline", "gen"}
                      => runs'[r].pc = runs[r].pc
  /\ \A i \in DOMAIN pipes : pipes'[i].started = pipes[i].started

C7_Step == RejectionInStep => NoCallStarted

\* C7: the step that handles a rejected load or generation starts no
\* library call: no import, no pipeline construction and no generation.
C7_NoRetry == [][C7_Step]_vars

\* A load started by a Generate click of the min-footprint page has failed
\* and nothing is in flight.
C7_Witness ==
  /\ page = "MinFootprint"
  /\ \E l \in Load : loads[l].pc = "failed" /\ loads[l].caller # 0
  /\ InFlight = 0

\* The result shape that decides the displayed text: the first element of a
\* non-empty array, or the result itself.
C8_Subject(result) ==
  IF result.t = "array" /\ Len(result.a) > 0 THEN result.a[1] ELSE result

\* The text the Phi-3 page is specified to display for a result.
C8_Text(result) ==
  LET gt == Prop(C8_Subject(result), 1)
  IN CASE gt.t = "string" -> gt
       [] gt.t = "array" /\ Len(gt.a) > 0 /\ isChatMessage(gt.a[Len(gt.a)])
            -> gt.a[Len(gt.a)].a[3]
       [] gt.t = "array" /\ Len(gt.a) > 0 /\ ~isChatMessage(gt.a[Len(gt.a)])
            -> JSONstringify(gt)
       [] OTHER -> IF result.t = "string" THEN result
                   ELSE JSONstringify(result)

C8_Step ==
  \A r \in Run, result \in Results :
    (page = "Phi3" /\ R_genResolves(r, result))
      => ui'.output = C8_Text(result)

\* C8: on the Phi-3 page a resolved generation displays the generated_text
\* string of the first element (or of the object), the content of the last
\* chat message of a generated_text sequence, a plain-string result
\* unchanged, and otherwise a JSON serialization (of a non-empty
\* generated_text sequence, else of the whole result).
C8_ExtractText == [][C8_Step]_vars

\* A chat-style result has been displayed as its last message's content.
C8_Witness ==
  /\ page = "Phi3"
  /\ \E r \in Run : runs[r].outcome = "resolved"
  /\ ui.output = Str("reply")

\* C9: on the min-footprint page a run that loaded the model on demand goes
\* on, once that load has succeeded, to make a generation call.
C9_OnDemandRunGenerates ==
  page = "MinFootprint" =>
    \A r \in Run :
      (runs[r].load # 0 /\ loads[runs[r].load].pc = "loaded")
        => runs[r].calledGen

\* C10: on the disposable page dispose is invoked at most once on a
\* pipeline, only after the generation call made on it has settled, and no
\* generation call is pending on a pipeline that has been disposed.
C10_DisposeOnceAfterGeneration ==
  page = "Disposable" =>
    \A i \in DOMAIN pipes :
      /\ pipes[i].disposed <= 1
      /\ pipes[i].started <= 1
      /\ pipes[i].disposed >= 1 => (pipes[i].started = 1 /\ pipes[i].pending = 0)

\* A click was made while the previous run's dispose was still pending: the
\* first pipeline is disposed and a generation runs on the second.
C10_Witness ==
  /\ page = "Disposable"
  /\ Len(runs) = 2
  /\ runs[1].pc = "dispose"
  /\ runs[2].pc = "gen"
  /\ pipes[1].disposed = 1
  /\ pipes[2].pending = 1

(***************************************************************************)
(* Progress.  The library settles every promise it has handed out: some    *)
(* pending import, pipeline construction, generation or dispose resolves   *)
(* or rejects as long as one is pending.  (The number of calls in a        *)
(* behaviour is bounded, so this settles each of them.)                    *)
(***************************************************************************)
Settles(RS, ES) ==
  \/ \E r \in Run : D_importResolves(r)
  \/ \E r \in Run, hd \in BOOLEAN : D_pipelineResolves(r, hd)
  \/ \E r \in Run, e \in ES : D_loadRejects(r, e)
  \/ \E r \in Run, res \in RS : D_genResolves(r, res)
  \/ \E r \in Run, e \in ES : D_genRejects(r, e)
  \/ \E r \in Run : D_disposeSettles(r)
  \/ \E l \in Load : M_importResolves(l)
  \/ \E l \in Load : M_pipelineResolves(l)
  \/ \E l \in Load, e \in ES : M_loadRejects(l, e)
  \/ \E r \in Run, res \in RS : M_genResolves(r, res)
  \/ \E r \in Run, e \in ES : M_genRejects(r, e)
  \/ \E l \in Load : R_importResolves(l)
  \/ \E l \in Load : R_pipelineResolves(l)
  \/ \E l \in Load, e \in ES : R_loadRejects(l, e)
  \/ \E r \in Run, res \in RS : R_genResolves(r, res)
  \/ \E r \in Run, e \in ES : R_genRejects(r, e)
  \/ \E l \in Load : L_importResolves(l)
  \/ \E l \in Load : L_pipelineResolves(l)
  \/ \E l \in Load, e \in ES : L_loadRejects(l, e)
  \/ \E r \in Run, res \in RS : L_genResolves(r, res)
  \/ \E r \in Run, e \in ES : L_genRejects(r, e)

\* The user and React: clicks, the mount effect and its cleanup.
PageEvent ==
  \/ D_runOnceAndFree
  \/ EffectCleanup
  \/ M_effect
  \/ M_runOnceAndFree
  \/ M_clear
  \/ R_effect
  \/ onGenerate
  \/ L_effect
  \/ generate

\* Whether a page leaves its busy state does not depend on which text is
\* displayed: one result of each kind the pages tell apart there (usable,
\* and one whose [0] throws on the llama2 page) and one error are enough.
LiveResults == { Arr(<<Obj(Str("text"), Absent, Absent)>>), JsNull }
LiveErrors == { ErrorObj("boom") }

PromiseSettles == Settles(LiveResults, LiveErrors)

LiveNext == PageEvent \/ PromiseSettles

LiveSpec == Init /\ [][LiveNext]_vars /\ WF_vars(PromiseSettles)

\* The most loads and runs a behaviour can start.
MaxLoads == MaxRuns + MaxEffectRuns

\* The page's loading flag and generating flag (the busy status values on
\* the disposable page).
LoadingFlag ==
  CASE page = "Disposable" -> ui.status = "loading" \/ ui.status = "running"
    [] page = "MinFootprint" -> ui.loadingModel
    [] page \in RefPages -> ui.isLoadingModel
    [] page = "Llama2" -> ui.loading

GeneratingFlag ==
  CASE page = "Disposable" -> ui.status = "loading" \/ ui.status = "running"
    [] page = "MinFootprint" -> ui.generating
    [] page \in RefPages -> ui.isGenerating
    [] page = "Llama2" -> ui.generating

\* Load l is pending and has not been cancelled / has been cancelled.
LiveLoad(l) == l \in PendingLoads /\ ~loads[l].cancelled
CancelledLoad(l) == l \in Load /\ loads[l].cancelled

\* C11: when the library settles its promises, a pending load that is not
\* cancelled leads to the loading flag being false, and a pending run of the
\* Generate handler (loading or generating) leads to the generating flag
\* being false (status neither 'loading' nor 'running' on the disposable
\* page).
C11_BusyEnds ==
  /\ \A l \in 1..MaxLoads :
       LiveLoad(l) ~> (~LoadingFlag \/ CancelledLoad(l))
  /\ \A r \in 1..MaxRuns :
       (r \in LoadingRuns \cup GeneratingRuns) ~> ~GeneratingFlag

\* A load that was never cancelled has loaded, a generation has settled, and
\* the page is not busy.
C11_Witness ==
  /\ page = "Llama2"
  /\ \E l \in Load : loads[l].pc = "loaded" /\ ~loads[l].cancelled
  /\ \E r \in Run : runs[r].outcome = "rejected"
  /\ ~ui.loading
  /\ ~ui.generating

\* C12: on the llama2, DistilGPT-2 and Phi-3 pages a step taken by a load
\* that is pending and already cancelled changes no page state: not the
\* loading flag, the status text, the output or the generator.
C12_Step ==
  page \in {"Llama2", "DistilGPT2", "Phi3"} =>
    \A l \in Load :
      (loads[l].cancelled /\ l \in PendingLoads /\ loads'[l].pc # loads[l].pc)
        => ui' = ui

C12_CancelledLoadUpdatesNothing == [][C12_Step]_vars

\* C13: the output is empty for the whole time a generation is in progress
\* (on the disposable page: while status is 'loading' or 'running').
C13_OutputEmptyDuringRun ==
  IF page = "Disposable"
  THEN ui.status \in {"loading", "running"} => ui.output = Empty
  ELSE GeneratingRuns # {} => ui.output = Empty

====
